---- MODULE Spec2Model ----
(***************************************************************************)
(* Model of the three batch rewriters of mobile-app/:                      *)
(*   fix_activities.py      ("v1")     rename + setState wrapper           *)
(*   fix_activities_v2.py   ("v2")     repair + rename + wrapper           *)
(*   fix_extra_braces.py    ("braces") duplicate closing line removal      *)
(*                                                                         *)
(* A file's text is a sequence of tokens.  Every token is a literal piece  *)
(* of Dart text; the text of a buffer is the concatenation of its tokens.  *)
(* The regular expressions and substring tests of the scripts are          *)
(* translated to what they do on such token sequences.                     *)
(***************************************************************************)
EXTENDS Naturals, Integers, Sequences, FiniteSets

\* ------------------------------------------------------------- tokens

SP == " "
NL == "\n"
OVR == "@override"
OLDSIG == "void _generateQuestion() {"
NEWSIG == "void generateNewQuestion() {"
OPEN == "setState(() {"
CLOSE == "});"
MARK == " // setState"
RB == "}"
LB == "if (ok) {"
CLS == "class Activity {"
DELAY == "Future.delayed(tick, () {"
STMT == "score = score + 1;"
CALL == "_generateQuestion();"
NEWCALL == "generateNewQuestion();"
ARROWCALL == "onTap: () => _generateQuestion(),"

Tokens == {SP, NL, OVR, OLDSIG, NEWSIG, OPEN, CLOSE, MARK, RB, LB, STMT,
           CALL, NEWCALL, ARROWCALL, CLS, DELAY}

\* \s of the regular expressions, restricted to the two whitespace tokens
IsSpace(t) == t \in {SP, NL}

\* str.count('{') and str.count('}') of one token
CountOpenTok(t) == IF t \in {OLDSIG, NEWSIG, OPEN, LB, CLS, DELAY} THEN 1 ELSE 0
CountCloseTok(t) == IF t \in {CLOSE, RB} THEN 1 ELSE 0

\* line.count('{'), line.count('}'); also used on whole buffers
RECURSIVE CountOpenFrom(_, _)
CountOpenFrom(s, i) ==
    IF i > Len(s) THEN 0 ELSE CountOpenTok(s[i]) + CountOpenFrom(s, i + 1)

RECURSIVE CountCloseFrom(_, _)
CountCloseFrom(s, i) ==
    IF i > Len(s) THEN 0 ELSE CountCloseTok(s[i]) + CountCloseFrom(s, i + 1)

CountOpen(s) == CountOpenFrom(s, 1)
CountClose(s) == CountCloseFrom(s, 1)

\* 'x' in line, for a literal x that occurs only inside token t
Contains(line, t) == \E k \in 1..Len(line) : line[k] = t

\* number of occurrences of token t in s
Occurrences(s, t) == Cardinality({k \in 1..Len(s) : s[k] = t})

RECURSIVE Spaces(_)
Spaces(n) == IF n = 0 THEN <<>> ELSE <<SP>> \o Spaces(n - 1)

\* first index j >= i of s that is not whitespace (Len(s) + 1 when none)
RECURSIVE SkipSpace(_, _)
SkipSpace(s, i) ==
    IF i <= Len(s) /\ IsSpace(s[i]) THEN SkipSpace(s, i + 1) ELSE i

\* len(line) - len(line.lstrip()): MARK is the one token whose text starts
\* with a blank
LStripLen(line) ==
    LET j == SkipSpace(line, 1)
    IN  (j - 1) + (IF j <= Len(line) /\ line[j] = MARK THEN 1 ELSE 0)

\* bool(line.strip())
StripNonEmpty(line) == \E k \in 1..Len(line) : ~IsSpace(line[k])

\* line.strip() == '}'
StripIsBrace(line) == SelectSeq(line, LAMBDA t : ~IsSpace(t)) = <<RB>>

\* content.split('\n'): k line feeds give k + 1 lines
RECURSIVE SplitFrom(_, _, _)
SplitFrom(s, i, cur) ==
    IF i > Len(s) THEN <<cur>>
    ELSE IF s[i] = NL THEN <<cur>> \o SplitFrom(s, i + 1, <<>>)
    ELSE SplitFrom(s, i + 1, Append(cur, s[i]))

Split(s) == SplitFrom(s, 1, <<>>)

\* '\n'.join(lines)
RECURSIVE JoinFrom(_, _)
JoinFrom(lines, i) ==
    IF i > Len(lines) THEN <<>>
    ELSE IF i = Len(lines) THEN lines[i]
    ELSE lines[i] \o <<NL>> \o JoinFrom(lines, i + 1)

Join(lines) == JoinFrom(lines, 1)

\* --------------------------------------------- fix_activities_v2.py

\* re.sub(r'}\); // setState\s*}\);', '});', content): index of the last
\* token of a match that starts at i, 0 when there is none
RepairMatchEnd(s, i) ==
    IF i + 1 <= Len(s) /\ s[i] = CLOSE /\ s[i + 1] = MARK
    THEN LET j == SkipSpace(s, i + 2)
         IN  IF j <= Len(s) /\ s[j] = CLOSE THEN j ELSE 0
    ELSE 0

RECURSIVE RepairFrom(_, _)
RepairFrom(s, i) ==
    IF i > Len(s) THEN <<>>
    ELSE LET e == RepairMatchEnd(s, i)
         IN  IF e > 0 THEN <<CLOSE>> \o RepairFrom(s, e + 1)
             ELSE <<s[i]>> \o RepairFrom(s, i + 1)

Repair(s) == RepairFrom(s, 1)

\* (\s+)void _generateQuestion\(\) \{ : index of the OLDSIG token that ends
\* a match starting at i, 0 when there is none.  \1 is s[i..j-1], the whole
\* whitespace run, line feeds included.
SigMatchEnd(s, i) ==
    IF i <= Len(s) /\ IsSpace(s[i])
    THEN LET j == SkipSpace(s, i)
         IN  IF j <= Len(s) /\ s[j] = OLDSIG THEN j ELSE 0
    ELSE 0

\* r'\1@override\n\1void generateNewQuestion() {'
SigReplacement(ws) == ws \o <<OVR, NL>> \o ws \o <<NEWSIG>>

RECURSIVE RewriteSigFrom(_, _)
RewriteSigFrom(s, i) ==
    IF i > Len(s) THEN <<>>
    ELSE LET e == SigMatchEnd(s, i)
         IN  IF e > 0
             THEN SigReplacement(SubSeq(s, i, e - 1)) \o RewriteSigFrom(s, e + 1)
             ELSE <<s[i]>> \o RewriteSigFrom(s, i + 1)

RewriteSignature(s) == RewriteSigFrom(s, 1)

\* "Already has setState, just copy as is": index of the line at which the
\* copy loop breaks (the first line from k on whose strip() is '}'), the
\* last line when it never breaks
RECURSIVE CopyEnd(_, _)
CopyEnd(lines, k) ==
    IF k >= Len(lines) THEN Len(lines)
    ELSE IF StripIsBrace(lines[k]) THEN k
    ELSE CopyEnd(lines, k + 1)

\* "Copy method body with adjusted indentation": the loop
\* while i < len(lines) and brace_count > 0.  Gives the index after the loop
\* and the lines produced.
RECURSIVE WrapBody(_, _, _, _, _)
WrapBody(lines, i, brace_count, setState_indent, new_lines) ==
    IF i > Len(lines) \/ brace_count <= 0
    THEN [i |-> i, out |-> new_lines, brace_count |-> brace_count]
    ELSE LET current_line == lines[i]
             bc == brace_count + CountOpen(current_line) - CountClose(current_line)
         IN  IF bc = 0
             THEN WrapBody(lines, i + 1, bc, setState_indent,
                           new_lines \o <<setState_indent \o <<CLOSE>>, current_line>>)
             ELSE IF StripNonEmpty(current_line)
             THEN WrapBody(lines, i + 1, bc, setState_indent,
                           Append(new_lines, <<SP, SP>> \o current_line))
             ELSE WrapBody(lines, i + 1, bc, setState_indent,
                           Append(new_lines, current_line))

\* "Found our method"
IsMethodAt(lines, i) ==
    /\ Contains(lines[i], OVR)
    /\ i + 1 <= Len(lines)
    /\ Contains(lines[i + 1], NEWSIG)

\* AlreadyWrapped without the test: every located method is wrapped again
AlreadyWrappedNever(lines, k) == FALSE

\* "Check if next line already has setState"; k is the line after the
\* signature line
AlreadyWrapped(lines, k) == k <= Len(lines) /\ Contains(lines[k], OPEN)

\* the while loop over the lines of fix_activities_v2.py
RECURSIVE WrapScan(_, _, _)
WrapScan(lines, i, new_lines) ==
    IF i > Len(lines) THEN new_lines
    ELSE IF IsMethodAt(lines, i)
    THEN LET head == new_lines \o <<lines[i], lines[i + 1]>>
             k == i + 2
         IN  IF AlreadyWrapped(lines, k)
             THEN LET e == CopyEnd(lines, k)
                  IN  WrapScan(lines, e + 1, head \o SubSeq(lines, k, e))
             ELSE LET method_indent == LStripLen(lines[k - 1])
                      setState_indent == Spaces(method_indent + 2)
                      r == WrapBody(lines, k, 1, setState_indent,
                                    Append(head, setState_indent \o <<OPEN>>))
                  IN  WrapScan(lines, r.i, r.out)
    ELSE WrapScan(lines, i + 1, Append(new_lines, lines[i]))

WrapLines(lines) == WrapScan(lines, 1, <<>>)

\* content.replace('_generateQuestion();', 'generateNewQuestion();')
FixCallSite(s) == [k \in 1..Len(s) |-> IF s[k] = CALL THEN NEWCALL ELSE s[k]]

\* the per-file transform of fix_activities_v2.py, lines 62 to 135
V2Transform(content) ==
    FixCallSite(Join(WrapLines(Split(RewriteSignature(Repair(content))))))

\* ------------------------------------------------ fix_activities.py

\* (\s+)void _generateQuestion\(\) \{\n : index of the NL token that ends a
\* match starting at i, 0 when there is none
V1SigMatchEnd(s, i) ==
    LET j == SigMatchEnd(s, i)
    IN  IF j > 0 /\ j + 1 <= Len(s) /\ s[j + 1] = NL THEN j + 1 ELSE 0

\* r'\1@override\n\1void generateNewQuestion() {\n\1  setState(() {\n'
V1SigReplacement(ws) ==
    ws \o <<OVR, NL>> \o ws \o <<NEWSIG, NL>> \o ws \o <<SP, SP, OPEN, NL>>

RECURSIVE V1RewriteSigFrom(_, _)
V1RewriteSigFrom(s, i) ==
    IF i > Len(s) THEN <<>>
    ELSE LET e == V1SigMatchEnd(s, i)
         IN  IF e > 0
             THEN V1SigReplacement(SubSeq(s, i, e - 2)) \o V1RewriteSigFrom(s, e + 1)
             ELSE <<s[i]>> \o V1RewriteSigFrom(s, i + 1)

V1RewriteSignature(s) == V1RewriteSigFrom(s, 1)

\* the for loop over the lines of fix_activities.py; brace_count is not
\* reset when a method is entered
RECURSIVE V1Scan(_, _, _, _, _, _)
V1Scan(lines, i, in_generate_method, brace_count, method_start_indent, new_lines) ==
    IF i > Len(lines) THEN new_lines
    ELSE LET line == lines[i]
             bc == brace_count + CountOpen(line) - CountClose(line)
         IN  IF Contains(line, NEWSIG)
             THEN V1Scan(lines, i + 1, TRUE, brace_count, LStripLen(line),
                         Append(new_lines, line))
             ELSE IF in_generate_method /\ bc = 0 /\ CountClose(line) > 0
             THEN V1Scan(lines, i + 1, FALSE, bc, method_start_indent,
                         new_lines \o <<Spaces(method_start_indent + 2) \o <<CLOSE, MARK>>,
                                        line>>)
             ELSE V1Scan(lines, i + 1, in_generate_method,
                         IF in_generate_method THEN bc ELSE brace_count,
                         method_start_indent, Append(new_lines, line))

V1CloseLines(lines) == V1Scan(lines, 1, FALSE, 0, 0, <<>>)

\* the per-file transform of fix_activities.py, lines 60 to 99
V1Transform(content) ==
    FixCallSite(Join(V1CloseLines(Split(V1RewriteSignature(content)))))

\* ---------------------------------------------- fix_extra_braces.py

IsPrefixAt(s, i, pat) ==
    /\ i + Len(pat) - 1 <= Len(s)
    /\ \A k \in 1..Len(pat) : s[i + k - 1] = pat[k]

\* str.replace(pat, rep): leftmost matches, not overlapping
RECURSIVE ReplaceFrom(_, _, _, _)
ReplaceFrom(s, i, pat, rep) ==
    IF i > Len(s) THEN <<>>
    ELSE IF IsPrefixAt(s, i, pat)
    THEN rep \o ReplaceFrom(s, i + Len(pat), pat, rep)
    ELSE <<s[i]>> \o ReplaceFrom(s, i + 1, pat, rep)

\* '}); // setState\n    });' and '}); // setState\n  });'
Dup4 == <<CLOSE, MARK, NL, SP, SP, SP, SP, CLOSE>>
Dup2 == <<CLOSE, MARK, NL, SP, SP, CLOSE>>

\* the per-file transform of fix_extra_braces.py, lines 55 and 56
BracesTransform(content) ==
    ReplaceFrom(ReplaceFrom(content, 1, Dup4, <<CLOSE>>), 1, Dup2, <<CLOSE>>)

\* ------------------------------------------------- the batch loops

\* number of entries of activity_files kept in the model (36 in the scripts)
NumFiles == 2
\* number of times a script is started in one behaviour
MaxRuns == 2
\* longest buffer, in tokens, of the exhaustive input set
MaxLen == 4

Files == 1..NumFiles
Scripts == {"v1", "v2", "braces"}

\* the transform each script applies between its read and its write
Transform(sc, content) ==
    IF sc = "v1" THEN V1Transform(content)
    ELSE IF sc = "v2" THEN V2Transform(content)
    ELSE BracesTransform(content)

\* print(...) of one loop iteration that finds no file: fix_extra_braces.py
\* continues without a message
SkipReport(sc, f) ==
    IF sc = "braces" THEN <<>> ELSE <<[kind |-> "not found", file |-> f]>>

\* print(...) of one loop iteration that rewrites a file
FixedReport(sc, f) ==
    (IF sc = "braces" THEN <<>> ELSE <<[kind |-> "processing", file |-> f]>>)
        \o <<[kind |-> "fixed", file |-> f]>>

\* ------------------------------------------------------ input sets

Indent(n, toks) == Spaces(n) \o toks

\* a class with the old method and no wrapper
ClassUnwrapped ==
    Join(<< <<CLS>>, Indent(2, <<OLDSIG>>), Indent(4, <<STMT>>), Indent(2, <<RB>>),
            <<RB>> >>)

\* the same class with two call sites of the old method
ClassWithCalls ==
    Join(<< <<CLS>>, Indent(2, <<CALL>>), Indent(2, <<ARROWCALL>>),
            Indent(2, <<OLDSIG>>), Indent(4, <<STMT>>), Indent(2, <<RB>>), <<RB>> >>)

\* the old method at the very start of the file
MethodAtStart == Join(<< <<OLDSIG>>, Indent(2, <<STMT>>), <<RB>> >>)

\* the old method, indented, on the first line of the file
MethodIndented ==
    Join(<< Indent(2, <<OLDSIG>>), Indent(4, <<STMT>>), Indent(2, <<RB>>) >>)

\* the old method with a block that is never closed
MethodUnclosed ==
    Join(<< Indent(2, <<OLDSIG>>), Indent(4, <<LB>>), Indent(4, <<STMT>>) >>)

\* no method, no call, no wrapper
Plain == Join(<< <<CLS>>, Indent(2, <<STMT>>), <<RB>> >>)

\* a hand-written nested closure whose inner closing line carries a
\* "// setState" comment
CommentedClosure ==
    Join(<< <<DELAY>>, Indent(2, <<OPEN>>), Indent(4, <<STMT>>),
            Indent(2, <<CLOSE, MARK>>), <<CLOSE>> >>)

\* what three runs of fix_activities.py leave of MethodIndented
ThriceWrapped == V1Transform(V1Transform(V1Transform(MethodIndented)))

Samples ==
    {ClassUnwrapped, ClassWithCalls, MethodAtStart, MethodIndented, MethodUnclosed,
     Plain, CommentedClosure, ThriceWrapped}

\* tokens of the exhaustive input set
AnyTokens == {SP, NL, OVR, OLDSIG, NEWSIG, OPEN, CLOSE, MARK, RB, STMT, CALL}

AnyBuffers == UNION {[1..n -> AnyTokens] : n \in 0..MaxLen}

\* an annotated, renamed method header followed by any buffer
MethodHead == <<OVR, NL, NEWSIG, NL>>
HeadedBuffers == {MethodHead \o t : t \in AnyBuffers}

\* ----------------------------------------------------------- state

VARIABLES
    script,     \* the script that is running
    history,    \* the scripts started so far, the running one last
    idx,        \* position of the for loop in activity_files
    pc,         \* "loop" inside the for loop, "done" after the last print
    exists,     \* os.path.exists of each entry of activity_files
    disk,       \* text of each file
    orig,       \* text of each file before the first run
    before,     \* text of each file when the running script started
    reads,      \* files opened for reading by the running script
    writes,     \* files opened for writing by the running script
    log         \* console output of the running script

vars == <<script, history, idx, pc, exists, disk, orig, before, reads, writes, log>>

InitRun(sc) ==
    /\ script = sc
    /\ history = <<sc>>
    /\ idx = 1
    /\ pc = "loop"
    /\ orig = disk
    /\ before = disk
    /\ reads = {}
    /\ writes = {}
    /\ log = <<>>

Init ==
    /\ exists \in [Files -> BOOLEAN]
    /\ disk \in [Files -> Samples \cup {<<>>}]
    /\ \A f \in Files : ~exists[f] => disk[f] = <<>>
    /\ \E sc \in Scripts : InitRun(sc)

\* one file exists; it holds any buffer of at most MaxLen tokens, or a method
\* header followed by such a buffer
InitAny ==
    /\ exists = [f \in Files |-> f = 1]
    /\ \E b \in AnyBuffers \cup HeadedBuffers :
          disk = [f \in Files |-> IF f = 1 THEN b ELSE <<>>]
    /\ InitRun("v2")

\* if not os.path.exists(file_path): ... continue
SkipMissing ==
    /\ pc = "loop"
    /\ idx <= NumFiles
    /\ ~exists[idx]
    /\ log' = log \o SkipReport(script, idx)
    /\ idx' = idx + 1
    /\ UNCHANGED <<script, history, pc, exists, disk, orig, before, reads, writes>>

\* read, transform, write back, print
ProcessFile ==
    /\ pc = "loop"
    /\ idx <= NumFiles
    /\ exists[idx]
    /\ reads' = reads \cup {idx}
    /\ disk' = [disk EXCEPT ![idx] = Transform(script, disk[idx])]
    /\ writes' = writes \cup {idx}
    /\ log' = log \o FixedReport(script, idx)
    /\ idx' = idx + 1
    /\ UNCHANGED <<script, history, pc, exists, orig, before>>

\* the print after the loop
Finish ==
    /\ pc = "loop"
    /\ idx = NumFiles + 1
    /\ pc' = "done"
    /\ log' = Append(log, [kind |-> "all done", file |-> 0])
    /\ UNCHANGED <<script, history, idx, exists, disk, orig, before, reads, writes>>

\* the user starts a script again on the same directory
Rerun(sc) ==
    /\ pc = "done"
    /\ Len(history) < MaxRuns
    /\ script' = sc
    /\ history' = Append(history, sc)
    /\ idx' = 1
    /\ pc' = "loop"
    /\ before' = disk
    /\ reads' = {}
    /\ writes' = {}
    /\ log' = <<>>
    /\ UNCHANGED <<exists, disk, orig>>

Next ==
    \/ SkipMissing
    \/ ProcessFile
    \/ Finish
    \/ \E sc \in Scripts : Rerun(sc)

Spec == Init /\ [][Next]_vars

NextAny ==
    \/ SkipMissing
    \/ ProcessFile
    \/ Finish

SpecAny == InitAny /\ [][NextAny]_vars

\* ---------------------------------------------------------- claims

\* the file was read, transformed and written by the running script
Processed(f) == f \in writes

FirstRun == Len(history) = 1

\* the running script and the one before it are both sc
RanTwice(sc) ==
    /\ Len(history) >= 2
    /\ history[Len(history)] = sc
    /\ history[Len(history) - 1] = sc

\* line.strip() == t, for a line of one token
StripIs(line, t) == SelectSeq(line, LAMBDA u : ~IsSpace(u)) = <<t>>

\* the line on which the brace depth, counted as 1 at the signature line j,
\* first returns to 0; 0 when it never does
RECURSIVE BlockEndFrom(_, _, _)
BlockEndFrom(lines, i, depth) ==
    IF i > Len(lines) THEN 0
    ELSE LET d == depth + CountOpen(lines[i]) - CountClose(lines[i])
         IN  IF d = 0 THEN i
             ELSE IF d < 0 THEN 0
             ELSE BlockEndFrom(lines, i + 1, d)

BlockEnd(lines, j) == BlockEndFrom(lines, j + 1, 1)

SigLines(lines, t) == {j \in 1..Len(lines) : Contains(lines[j], t)}

\* every old declaration of the buffer opens a block that closes on a later
\* line and whose first line is not the wrapper
OldMethodsWellFormed(s) ==
    LET lines == Split(s)
    IN  /\ SigLines(lines, OLDSIG) # {}
        /\ SigLines(lines, NEWSIG) = {}
        /\ \A j \in SigLines(lines, OLDSIG) :
              /\ BlockEnd(lines, j) > 0
              /\ ~Contains(lines[j + 1], OPEN)

\* the canonical form of the method whose signature is on line j
CanonicalAt(lines, j) ==
    /\ j > 1
    /\ StripIs(lines[j - 1], OVR)
    /\ j + 1 <= Len(lines)
    /\ StripIs(lines[j + 1], OPEN)
    /\ BlockEnd(lines, j) > j + 2
    /\ StripIs(lines[BlockEnd(lines, j) - 1], CLOSE)

CanonicalFile(s) ==
    LET lines == Split(s)
    IN  /\ SigLines(lines, OLDSIG) = {}
        /\ \A j \in SigLines(lines, NEWSIG) : CanonicalAt(lines, j)

\* every signature line of the buffer, old or new, opens a block that closes
AllBlocksClose(s) ==
    LET lines == Split(s)
    IN  \A j \in SigLines(lines, OLDSIG) \cup SigLines(lines, NEWSIG) :
            BlockEnd(lines, j) > 0

Balanced(s) == CountOpen(s) = CountClose(s)

Added(f, t) == Occurrences(disk[f], t) - Occurrences(before[f], t)
AddedSinceStart(f, t) == Occurrences(disk[f], t) - Occurrences(orig[f], t)

\* the tokens that refer to the old method name
OldNameTokens == {OLDSIG, CALL, ARROWCALL}

\* the buffer has exactly one signature line, old or new, and its block
\* never closes
OneUnclosedMethod(s) ==
    LET lines == Split(s)
        sigs == SigLines(lines, OLDSIG) \cup SigLines(lines, NEWSIG)
    IN  /\ Cardinality(sigs) = 1
        /\ \A j \in sigs : BlockEnd(lines, j) = 0

\* the lines that follow the one signature line of the buffer
TailAfterSig(s) ==
    LET lines == Split(s)
        j == CHOOSE k \in SigLines(lines, OLDSIG) \cup SigLines(lines, NEWSIG) : TRUE
    IN  SubSeq(lines, j + 1, Len(lines))

\* the repair step of a script: the regular expression of
\* fix_activities_v2.py, the two replacements of fix_extra_braces.py
RepairStep(sc, s) == IF sc = "v2" THEN Repair(s) ELSE BracesTransform(s)

\* a "}); // setState" closing followed, after white space only, by "});"
HasDoubleClose(s) ==
    \E i, j \in 1..Len(s) :
        /\ i + 1 < j
        /\ s[i] = CLOSE /\ s[i + 1] = MARK /\ s[j] = CLOSE
        /\ \A k \in (i + 2)..(j - 1) : IsSpace(s[k])

\* C1: what a run of fix_activities_v2.py writes for a file that the
\* previous run of fix_activities_v2.py wrote is the text it read:
\* transform(transform(x)) = transform(x)
C1_Idempotent ==
    RanTwice("v2") => \A f \in Files : Processed(f) => disk[f] = before[f]

\* C2: one run of fix_activities_v2.py on a file whose old declarations all
\* have a closed, unwrapped body leaves every one of them in canonical form:
\* @override line, signature line, setState(() { line, body, }); line, closing
\* line
C2_CanonicalAfterOneRun ==
    (script = "v2" /\ FirstRun) =>
        \A f \in Files :
            (Processed(f) /\ OldMethodsWellFormed(before[f])) => CanonicalFile(disk[f])

\* C3: a file with as many { as } in which every method block closes has as
\* many { as } after a run of fix_activities_v2.py
C3_BalancePreserved ==
    script = "v2" =>
        \A f \in Files :
            (Processed(f) /\ Balanced(before[f]) /\ AllBlocksClose(before[f]))
                => Balanced(disk[f])

\* C4: when a run rewrote a declaration of a file, no reference to the old
\* method name remains in that file
C4_RenameComplete ==
    script \in {"v1", "v2"} =>
        \A f \in Files :
            (Processed(f) /\ Added(f, NEWSIG) > 0)
                => \A k \in 1..Len(disk[f]) : disk[f][k] \notin OldNameTokens

\* C6: the repair step changes nothing on a buffer without a double closing,
\* and applied to its own result it changes nothing
C6_RepairConverges ==
    script \in {"v2", "braces"} =>
        \A f \in Files :
            Processed(f) =>
                LET x == before[f]
                    r == RepairStep(script, x)
                IN  /\ ~HasDoubleClose(x) => r = x
                    /\ RepairStep(script, r) = r

\* C7: a file is written only if the transform changed its text
C7_WriteOnlyIfChanged ==
    \A f \in Files : Processed(f) => disk[f] # before[f]

\* C8: the loop visits the list in order; a missing file is reported as not
\* found, is never read, written or created, and the existing files are
\* processed whatever is missing before them
C8_MissingSkipped ==
    /\ idx \in 1..(NumFiles + 1)
    /\ reads = {f \in 1..(idx - 1) : exists[f]}
    /\ writes = reads
    /\ \A f \in Files : ~exists[f] => disk[f] = <<>>
    /\ \A f \in 1..(idx - 1) :
          ~exists[f] => \E k \in 1..Len(log) : log[k] = [kind |-> "not found", file |-> f]

\* C9: a method whose block never closes is skipped: no wrapper line is added
\* without its counterpart and the lines after the signature are unchanged
C9_UnclosedSkipped ==
    (script \in {"v1", "v2"} /\ FirstRun) =>
        \A f \in Files :
            (Processed(f) /\ OneUnclosedMethod(before[f])) =>
                /\ Added(f, OPEN) = Added(f, CLOSE)
                /\ TailAfterSig(disk[f]) = TailAfterSig(before[f])

\* C10: after any number of runs of fix_activities.py on a file whose old
\* declarations have closed, unwrapped bodies, every method it renamed has got
\* exactly one opening and one closing wrapper line
C10_WrappedOnce ==
    ((\A k \in 1..Len(history) : history[k] = "v1") /\ pc = "done") =>
        \A f \in Files :
            (exists[f] /\ OldMethodsWellFormed(orig[f])) =>
                /\ AddedSinceStart(f, OPEN) = AddedSinceStart(f, NEWSIG)
                /\ AddedSinceStart(f, CLOSE) = AddedSinceStart(f, NEWSIG)

\* white space followed by the old declaration: a match of
\* (\s+)void _generateQuestion\(\) \{
HasOldDeclaration(s) ==
    \E i \in 1..(Len(s) - 1) : IsSpace(s[i]) /\ s[i + 1] = OLDSIG

\* an @override line directly followed by a line with the new signature
MethodPairs(lines) ==
    {i \in 1..(Len(lines) - 1) :
        Contains(lines[i], OVR) /\ Contains(lines[i + 1], NEWSIG)}

WrapperFollows(lines, i) == i + 2 <= Len(lines) /\ Contains(lines[i + 2], OPEN)

HasUnwrappedMethod(s) ==
    LET lines == Split(s)
    IN  \E i \in MethodPairs(lines) : ~WrapperFollows(lines, i)

HasWrappedMethod(s) ==
    LET lines == Split(s)
    IN  \E i \in MethodPairs(lines) : WrapperFollows(lines, i)

\* the buffer holds none of the four patterns fix_activities_v2.py rewrites
NoTarget(s) ==
    /\ ~HasOldDeclaration(s)
    /\ ~Contains(s, CALL)
    /\ ~HasDoubleClose(s)
    /\ ~HasUnwrappedMethod(s)

\* C5, as stated: a file without any "void _generateQuestion() {" is written
\* back with the text that was read
C5_NoDeclarationNoChange ==
    script = "v2" =>
        \A f \in Files :
            (Processed(f) /\ ~Contains(before[f], OLDSIG)) => disk[f] = before[f]

\* C5, amended: a file with no match of the declaration pattern, no
\* "_generateQuestion();" call, no "}); // setState" closing followed by a
\* second "});", and no @override / "void generateNewQuestion()" pair of lines
\* that lacks the "setState(() {" line, is written back with the text that was
\* read
C5_NoTargetNoChange ==
    script = "v2" =>
        \A f \in Files :
            (Processed(f) /\ NoTarget(before[f])) => disk[f] = before[f]

\* a file that holds none of the four patterns and an already wrapped method
\* (@override line, signature line, setState(() { line, and a later } line)
\* has been processed
C5_Witness ==
    /\ script = "v2"
    /\ \E f \in Files :
          /\ Processed(f)
          /\ NoTarget(before[f])
          /\ LET lines == Split(before[f])
             IN  \E i \in MethodPairs(lines) :
                    /\ WrapperFollows(lines, i)
                    /\ StripIs(lines[i + 2], OPEN)
                    /\ \E j \in (i + 3)..Len(lines) : StripIsBrace(lines[j])

====
